---------------------------- MODULE Spec2Model ----------------------------
(***************************************************************************)
(* A model of pogo (src/pogo.go): the CBC padding-oracle attack            *)
(* (CBCPaddingOracle, PaddingOracleBlockReveal) and its helpers            *)
(* (Xor, MergeBlocks, SplitBlocks, PKCS7Padding, PKCS7Unpadding,           *)
(* PKCS7Validate).                                                         *)
(*                                                                         *)
(* Bytes are the integers 0..255; every byte() conversion and every byte   *)
(* addition of the source is taken modulo ByteMod.  A Go slice is a view   *)
(* of its backing array: the blocks SplitBlocks returns are views of the   *)
(* caller's ciphertext, so the model keeps ONE byte array, ciphertext, and *)
(* reads block b as the bytes b*blockSize+1 .. (b+1)*blockSize of it.      *)
(* A Go error is a string, "nil" for no error; a run-time panic (index out *)
(* of range) is the outcome "panic".                                       *)
(*                                                                         *)
(* Two specifications share the variables:                                 *)
(*   Spec    one call of CBCPaddingOracle or PaddingOracleBlockReveal,     *)
(*           one step per oracle call;                                     *)
(*   SpecFn  the pure helpers applied to bounded inputs.                   *)
(***************************************************************************)
EXTENDS Integers, Sequences, FiniteSets, TLC

\* ------------------------------------------------------------------ bounds

\* Longest ciphertext of Spec, in bytes.
MaxLen == 9
\* Largest block size of Spec.
MaxBlockSize == 3
\* Longest input of the pure helpers in SpecFn, and its largest small block size.
MaxFnLen == 4
MaxFnBlockSize == 3
\* Largest byte value of the inputs of SpecFn.
MaxFnByte == 3
\* Longest operands of Xor in SpecFn.
MaxXorLen == 2

\* The number of values of a Go byte.
ByteMod == 256

\* Byte values of the ciphertexts of Spec, and the keys of its cipher.
CtBytes == {1, 2}
Keys == {0, 1}

\* ------------------------------------------------------------------- bytes

RECURSIVE XorBits(_, _, _)
XorBits(a, b, n) ==
    IF n = 0 THEN 0
    ELSE (((a % 2) + (b % 2)) % 2) + 2 * XorBits(a \div 2, b \div 2, n - 1)

\* x ^ y on two bytes.
XorByte(a, b) == XorBits(a, b, 8)

\* byte(n) for an int n >= 0, and byte addition.
ToByte(n) == n % ByteMod

\* ---------------------------------------------------------------- helpers

\* Xor(a, b): the element-wise XOR, or an error when the lengths differ.
Xor_LengthUnchecked(a, b) ==
    [val |-> [k \in 1..Len(a) |-> XorByte(a[k], IF k <= Len(b) THEN b[k] ELSE 0)],
     err |-> "nil"]

Xor(a, b) ==
    IF Len(a) # Len(b)
    THEN [val |-> <<>>, err |-> "LengthMismatch"]
    ELSE [val |-> [k \in 1..Len(a) |-> XorByte(a[k], b[k])], err |-> "nil"]

\* MergeBlocks(input): the blocks appended in order.
RECURSIVE MergeBlocks_Reversed(_)
MergeBlocks_Reversed(input) ==
    IF input = <<>> THEN <<>>
    ELSE MergeBlocks_Reversed(Tail(input)) \o Head(input)

RECURSIVE MergeBlocks(_)
MergeBlocks(input) ==
    IF input = <<>> THEN <<>>
    ELSE Head(input) \o MergeBlocks(Tail(input))

\* SplitBlocks(input, blockSize): len(input)/blockSize slices input[i:i+blockSize].
SplitBlocks_Overlapping(input, blockSize) ==
    IF Len(input) % blockSize # 0
    THEN [val |-> <<>>, err |-> "NotBlockAligned"]
    ELSE [val |-> [b \in 1..(Len(input) \div blockSize) |->
                     SubSeq(input, b, b + blockSize - 1)],
          err |-> "nil"]

SplitBlocks(input, blockSize) ==
    IF Len(input) % blockSize # 0
    THEN [val |-> <<>>, err |-> "NotBlockAligned"]
    ELSE [val |-> [b \in 1..(Len(input) \div blockSize) |->
                     SubSeq(input, (b - 1) * blockSize + 1, b * blockSize)],
          err |-> "nil"]

\* PKCS7Padding(src, blockSize): padLen bytes byte(padLen) appended.
PKCS7Padding_NoFullBlock(src, blockSize) ==
    LET padLen == (blockSize - (Len(src) % blockSize)) % blockSize
    IN  src \o [k \in 1..padLen |-> ToByte(padLen)]

PKCS7Padding(src, blockSize) ==
    LET padLen == blockSize - (Len(src) % blockSize)
    IN  src \o [k \in 1..padLen |-> ToByte(padLen)]

\* PKCS7Unpadding(src, blockSize): src[srcLen-1] is read first (a panic on an
\* empty src), then the two range checks.
PKCS7Unpadding(src, blockSize) ==
    LET srcLen == Len(src) IN
    IF srcLen = 0 THEN [val |-> <<>>, err |-> "panic"]
    ELSE LET paddingLen == src[srcLen] IN
         IF paddingLen >= srcLen \/ paddingLen > blockSize
         THEN [val |-> <<>>, err |-> "InvalidPadding"]
         ELSE [val |-> SubSeq(src, 1, srcLen - paddingLen), err |-> "nil"]

\* PKCS7Validate(input, blockSize): input[l-1] is read first (a panic on an
\* empty input); the loop visits the 0-based indices l-1 down to l-lb.
PKCS7Validate(input, blockSize) ==
    LET l == Len(input) IN
    IF l = 0 THEN "panic"
    ELSE LET lb == input[l] IN
         IF lb = 0 THEN "InvalidPadding"
         ELSE IF l % blockSize # 0 THEN "InvalidPadding"
         ELSE IF lb > blockSize THEN "InvalidPadding"
         ELSE IF \E p \in (l - lb + 1)..l : input[p] # lb THEN "InvalidPadding"
         ELSE "nil"

\* ------------------------------------------------------------------ oracle

\* The block cipher behind the oracle is outside the repository (AES in the
\* tests).  Its raw block decryption is stood in for by a keyed permutation of
\* the blocks: the block reversed, byte k XORed with byte(key + k).  What it
\* returns is the intermediate state of that block.
DecryptBlock(key, block) ==
    [k \in 1..Len(block) |->
        XorByte(block[Len(block) - k + 1], ToByte(key + k - 1))]

\* CBC decryption under a zero IV: plaintext block b is the decrypted block b
\* XOR the ciphertext block before it.
CBCDecrypt(key, input, blockSize) ==
    LET blocks == SplitBlocks(input, blockSize).val
        prev(b) == IF b = 1 THEN [k \in 1..blockSize |-> 0] ELSE blocks[b - 1]
    IN  MergeBlocks([b \in 1..Len(blocks) |->
                        Xor(DecryptBlock(key, blocks[b]), prev(b)).val])

\* An oracle returns nil (TRUE here) or a padding error.  "truthful" is the
\* tests' oracle: CBC-decrypt the input, then PKCS7Validate it.  "accept" and
\* "reject" answer the same for every input.
OracleAccepts(o, input, blockSize) ==
    CASE o.kind = "truthful" ->
            PKCS7Validate(CBCDecrypt(o.key, input, blockSize), blockSize) = "nil"
      [] o.kind = "accept" -> TRUE
      [] o.kind = "reject" -> FALSE

\* ------------------------------------------------------------------- state

VARIABLES
    op,                 \* "decrypt" (CBCPaddingOracle), "reveal" (PaddingOracleBlockReveal), "fn"
    pc,                 \* "start", "reveal", "search", "done", "panic", "idle"
    ciphertext,         \* the caller's byte array, which every block is a view of
    ciphertext0,        \* its bytes when the call was made (history)
    blockSize,
    oracle,             \* [kind, key]
    i,                  \* CBCPaddingOracle's loop index
    plaintext, err,     \* the results of the call
    targetBlockIndex, modBlockBackup, poi, mb, expectedPadding, intermediateState,
    probe,              \* the last input handed to the oracle (history)
    calls,              \* the number of oracle calls made (history)
    revealLog,          \* what each PaddingOracleBlockReveal call returned (history)
    fnOp, fnIn, fnOut   \* SpecFn: the helper applied, its input, its result

revealVars == <<targetBlockIndex, modBlockBackup, poi, mb, expectedPadding,
                intermediateState>>
fnVars == <<fnOp, fnIn, fnOut>>
vars == <<op, pc, ciphertext, ciphertext0, blockSize, oracle, i, plaintext, err,
          revealVars, probe, calls, revealLog, fnVars>>

\* len(blocks) after SplitBlocks, and blocks[b] (0-based b) as a view of mem.
NumBlocks(mem, bs) == Len(mem) \div bs
Block(mem, bs, b) == SubSeq(mem, b * bs + 1, (b + 1) * bs)

\* A store modBlock[j] = v (0-based j) through the view blocks[b] of mem.
StoreByte(mem, bs, b, j, v) == [mem EXCEPT ![b * bs + j + 1] = v]

\* ------------------------------------------- PaddingOracleBlockReveal, pieces

\* Lines 46-48 index blocks[targetBlockIndex] and blocks[targetBlockIndex-1]
\* before anything is checked: an index outside 0..n-1 panics.
IndexPanics(n, t) == t < 0 \/ t >= n \/ t - 1 < 0

\* Line 51, the range check (reached only when lines 46-48 did not panic).
IndexRejected(n, t) == n <= t \/ n < 2

\* Lines 60-62: modBlock[i] = modBlock[i] + 1 through the view blocks[t-1].
\* The stores of the passes i = k .. ltb-1; each byte is stored once.
Scramble(mem, bs, t, k) ==
    [q \in 1..Len(mem) |->
        IF (t - 1) * bs + k < q /\ q <= t * bs THEN ToByte(mem[q] + 1) ELSE mem[q]]

\* Lines 74-76: modBlock[poi] = modByte, then the merged blocks[:t+1].
ProbeStore_IntoTarget(mem, bs, t, p, modByte) == StoreByte(mem, bs, t, p, modByte)

ProbeStore(mem, bs, t, p, modByte) == StoreByte(mem, bs, t - 1, p, modByte)

ProbeInput(mem, bs, t) == MergeBlocks([b \in 1..(t + 1) |-> Block(mem, bs, b - 1)])

\* Line 72, mb++: the candidate after candidate m.
NextCandidate_SkipsOne(m) == m + 2

NextCandidate(m) == m + 1

\* Line 100, if mb == 256: the inner loop ended without a match.
Exhausted_Never(m) == FALSE

Exhausted(m) == m = ByteMod

\* Line 83: expectedPadding += 1, on a byte.
NextPadding_Unchanged(ep) == ep

NextPadding(ep) == ToByte(ep + 1)

\* Line 81: isb := modByte ^ expectedPadding.
IntermediateByte_NoPadding(modByte, ep) == modByte

IntermediateByte(modByte, ep) == XorByte(modByte, ep)

UpdateModBlock_OnlyPoi(mem, bs, t, p, ep, is, j) ==
    [mem |-> StoreByte(mem, bs, t - 1, p, XorByte(ep, is[p + 1])), panic |-> FALSE]

\* Lines 92-94: for j := ltb-1; j >= poi-1; j-- { modBlock[j] = ep ^ is[j] }.
\* The stores happen from j = ltb-1 downwards; a store at j = -1 panics.
\* Each byte is stored once, so the stores are taken together.
UpdateModBlock(mem, bs, t, p, ep, is, j) ==
    [mem |-> [q \in 1..Len(mem) |->
                IF /\ (t - 1) * bs < q /\ q <= t * bs
                   /\ p - 1 <= q - (t - 1) * bs - 1 /\ q - (t - 1) * bs - 1 <= j
                THEN XorByte(ep, is[q - (t - 1) * bs])
                ELSE mem[q]],
     panic |-> p - 1 <= j /\ p - 1 < 0]

\* ------------------------------------------------------- CBCPaddingOracle

\* Lines 34-40: what the loop does with the (pt, err) its call of
\* PaddingOracleBlockReveal for block idx returned; a direct call of
\* PaddingOracleBlockReveal just returns them.
DecryptLoopStep_DropsPartial(o, acc, idx, n, pt, e) ==
    IF o = "reveal" THEN [plaintext |-> pt, err |-> e, pc |-> "done", i |-> idx]
    ELSE IF e # "nil" THEN [plaintext |-> <<>>, err |-> e, pc |-> "done", i |-> idx]
    ELSE [plaintext |-> acc \o pt, err |-> "nil",
          pc |-> IF idx + 1 < n THEN "reveal" ELSE "done", i |-> idx + 1]

DecryptLoopStep_Prepends(o, acc, idx, n, pt, e) ==
    IF o = "reveal" THEN [plaintext |-> pt, err |-> e, pc |-> "done", i |-> idx]
    ELSE IF e # "nil" THEN [plaintext |-> acc, err |-> e, pc |-> "done", i |-> idx]
    ELSE [plaintext |-> pt \o acc, err |-> "nil",
          pc |-> IF idx + 1 < n THEN "reveal" ELSE "done", i |-> idx + 1]

DecryptLoopStep(o, acc, idx, n, pt, e) ==
    IF o = "reveal" THEN [plaintext |-> pt, err |-> e, pc |-> "done", i |-> idx]
    ELSE IF e # "nil" THEN [plaintext |-> acc, err |-> e, pc |-> "done", i |-> idx]
    ELSE [plaintext |-> acc \o pt, err |-> "nil",
          pc |-> IF idx + 1 < n THEN "reveal" ELSE "done", i |-> idx + 1]

\* PaddingOracleBlockReveal returns (pt, e): the caller takes over.
ReturnFromReveal(pt, e) ==
    LET r == DecryptLoopStep(op, plaintext, i, NumBlocks(ciphertext, blockSize), pt, e)
    IN  /\ plaintext' = r.plaintext
        /\ err' = r.err
        /\ pc' = r.pc
        /\ i' = r.i
        /\ targetBlockIndex' = IF r.pc = "reveal" THEN r.i ELSE targetBlockIndex
        /\ revealLog' = Append(revealLog, [target |-> targetBlockIndex, pt |-> pt, err |-> e])

\* CBCPaddingOracle, lines 18-32: the alignment check, SplitBlocks, and the
\* loop's first test.
CallDecrypt ==
    /\ pc = "start"
    /\ op = "decrypt"
    /\ LET split == SplitBlocks(ciphertext, blockSize) IN
       IF Len(ciphertext) % blockSize # 0 \/ split.err # "nil"
       THEN /\ err' = "NotBlockAligned"
            /\ pc' = "done"
            /\ UNCHANGED <<i, targetBlockIndex>>
       ELSE IF 1 < Len(split.val)
       THEN /\ i' = 1
            /\ targetBlockIndex' = 1
            /\ pc' = "reveal"
            /\ err' = "nil"
       ELSE /\ i' = 1
            /\ pc' = "done"
            /\ err' = "nil"
            /\ UNCHANGED targetBlockIndex
    /\ plaintext' = <<>>
    /\ UNCHANGED <<op, ciphertext, ciphertext0, blockSize, oracle, modBlockBackup, poi,
                   mb, expectedPadding, intermediateState, probe, calls, revealLog, fnVars>>

\* PaddingOracleBlockReveal, lines 46-69: up to the first oracle call.
RevealEntry ==
    /\ pc = "reveal"
    /\ LET n == NumBlocks(ciphertext, blockSize)
           t == targetBlockIndex
       IN  IF IndexPanics(n, t)
           THEN /\ pc' = "panic"
                /\ UNCHANGED <<ciphertext, i, plaintext, err, revealVars, revealLog>>
           ELSE IF IndexRejected(n, t)
           THEN /\ ReturnFromReveal(<<>>, "InvalidTargetIndex")
                /\ modBlockBackup' = Block(ciphertext, blockSize, t - 1)
                /\ UNCHANGED <<ciphertext, poi, mb, expectedPadding, intermediateState>>
           ELSE /\ modBlockBackup' = Block(ciphertext, blockSize, t - 1)
                /\ ciphertext' = Scramble(ciphertext, blockSize, t, 0)
                /\ poi' = Len(Block(ciphertext, blockSize, t)) - 1
                /\ expectedPadding' = 1
                /\ intermediateState' = [k \in 1..Len(Block(ciphertext, blockSize, t)) |-> 0]
                /\ mb' = 0
                /\ pc' = "search"
                /\ UNCHANGED <<i, plaintext, err, targetBlockIndex, revealLog>>
    /\ UNCHANGED <<op, ciphertext0, blockSize, oracle, probe, calls, fnVars>>

\* One pass of the inner loop, lines 72-77, whose oracle call returns an error:
\* the next candidate, or, after candidate 255, the test of line 100 and the
\* failure of lines 101-102 (the outer loop would go round again otherwise).
ProbeReject ==
    /\ pc = "search"
    /\ LET t == targetBlockIndex
           mem == ProbeStore(ciphertext, blockSize, t, poi, ToByte(mb))
           input == ProbeInput(mem, blockSize, t)
       IN  /\ ~OracleAccepts(oracle, input, blockSize)
           /\ ciphertext' = mem
           /\ probe' = input
           /\ calls' = calls + 1
           /\ IF NextCandidate(mb) < ByteMod
              THEN /\ mb' = NextCandidate(mb)
                   /\ UNCHANGED <<pc, i, plaintext, err, targetBlockIndex, revealLog>>
              ELSE IF Exhausted(NextCandidate(mb))
              THEN /\ mb' = NextCandidate(mb)
                   /\ ReturnFromReveal(<<>>, "OracleExhausted")
              ELSE /\ mb' = 0
                   /\ UNCHANGED <<pc, i, plaintext, err, targetBlockIndex, revealLog>>
    /\ UNCHANGED <<op, ciphertext0, blockSize, oracle, modBlockBackup, poi,
                   expectedPadding, intermediateState, fnVars>>

\* One pass of the inner loop whose oracle call returns nil, lines 78-97, and
\* what follows it: the next position, or lines 105-106 once poi < 0.
ProbeAccept ==
    /\ pc = "search"
    /\ LET t == targetBlockIndex
           ltb == Len(intermediateState)
           mem == ProbeStore(ciphertext, blockSize, t, poi, ToByte(mb))
           input == ProbeInput(mem, blockSize, t)
           isb == IntermediateByte(ToByte(mb), expectedPadding)
           is1 == [intermediateState EXCEPT ![poi + 1] = isb]
           ep1 == NextPadding(expectedPadding)
           finished == ep1 > ToByte(ltb)
           upd == IF finished THEN [mem |-> mem, panic |-> FALSE]
                  ELSE UpdateModBlock(mem, blockSize, t, poi, ep1, is1, ltb - 1)
       IN  /\ OracleAccepts(oracle, input, blockSize)
           /\ probe' = input
           /\ calls' = calls + 1
           /\ intermediateState' = is1
           /\ expectedPadding' = ep1
           /\ ciphertext' = upd.mem
           /\ IF upd.panic
              THEN /\ pc' = "panic"
                   /\ UNCHANGED <<poi, mb, i, plaintext, err, targetBlockIndex, revealLog>>
              ELSE /\ poi' = poi - 1
                   /\ IF poi - 1 >= 0
                      THEN /\ mb' = 0
                           /\ UNCHANGED <<pc, i, plaintext, err, targetBlockIndex, revealLog>>
                      ELSE /\ UNCHANGED mb
                           /\ LET x == Xor(modBlockBackup, is1)
                              IN  ReturnFromReveal(x.val, x.err)
    /\ UNCHANGED <<op, ciphertext0, blockSize, oracle, modBlockBackup, fnVars>>

\* ------------------------------------ PaddingOracleBlockReveal, as a function

\* The inner loop of lines 72-98 at position p: the first candidate the oracle
\* accepts, or ByteMod when it rejects them all.
FirstAccepted(mem, bs, t, orc, p) ==
    LET ok == {c \in 0..(ByteMod - 1) :
                 OracleAccepts(orc, ProbeInput(ProbeStore(mem, bs, t, p, c), bs, t), bs)}
    IN  IF ok = {} THEN ByteMod ELSE CHOOSE c \in ok : \A d \in ok : c <= d

\* The outer loop of lines 70-106 from position p on: what the call returns
\* and the bytes it leaves in the caller's array.
RECURSIVE SearchResult(_, _, _, _, _, _, _, _)
SearchResult(mem, bs, t, orc, p, ep, is, backup) ==
    LET c == FirstAccepted(mem, bs, t, orc, p) IN
    IF c = ByteMod
    THEN [pt |-> <<>>, err |-> "OracleExhausted",
          mem |-> ProbeStore(mem, bs, t, p, ByteMod - 1)]
    ELSE LET m1 == ProbeStore(mem, bs, t, p, c)
             is1 == [is EXCEPT ![p + 1] = IntermediateByte(c, ep)]
             ep1 == NextPadding(ep)
             upd == IF ep1 > ToByte(bs) THEN [mem |-> m1, panic |-> FALSE]
                    ELSE UpdateModBlock(m1, bs, t, p, ep1, is1, bs - 1)
         IN  IF upd.panic THEN [pt |-> <<>>, err |-> "panic", mem |-> upd.mem]
             ELSE IF p - 1 >= 0
             THEN SearchResult(upd.mem, bs, t, orc, p - 1, ep1, is1, backup)
             ELSE [pt |-> Xor(backup, is1).val, err |-> Xor(backup, is1).err,
                   mem |-> upd.mem]

\* PaddingOracleBlockReveal(blocks, t, orc) for a valid index t, the blocks
\* being the views of mem.
RevealResult(mem, bs, t, orc) ==
    SearchResult(Scramble(mem, bs, t, 0), bs, t, orc, bs - 1, 1,
                 [k \in 1..bs |-> 0], Block(mem, bs, t - 1))

\* ------------------------------------------------------------ Spec: inputs

Oracles ==
    {[kind |-> "truthful", key |-> k] : k \in Keys}
        \cup {[kind |-> "accept", key |-> 0], [kind |-> "reject", key |-> 0]}

Ciphertexts == UNION {[1..l -> CtBytes] : l \in 0..MaxLen}

\* The always-rejecting oracle costs 256 calls a run: it is paired with the
\* ciphertexts of one byte value only.
InputOK(o, ct, bs, orc, t) ==
    /\ orc.kind = "reject" => \A k \in 1..Len(ct) : ct[k] = 1
    /\ o = "decrypt" => t = 0
    /\ o = "reveal" => /\ Len(ct) % bs = 0
                       /\ t <= NumBlocks(ct, bs)

FnIdle ==
    /\ fnOp = "none"
    /\ fnIn = [x |-> <<>>, y |-> <<>>, bs |-> 1]
    /\ fnOut = [val |-> <<>>, err |-> "nil"]

Init ==
    /\ op \in {"decrypt", "reveal"}
    /\ blockSize \in 1..MaxBlockSize
    /\ ciphertext \in Ciphertexts
    /\ oracle \in Oracles
    /\ targetBlockIndex \in -1..MaxLen
    /\ InputOK(op, ciphertext, blockSize, oracle, targetBlockIndex)
    /\ ciphertext0 = ciphertext
    /\ pc = IF op = "decrypt" THEN "start" ELSE "reveal"
    /\ i = 0
    /\ plaintext = <<>>
    /\ err = "nil"
    /\ modBlockBackup = <<>>
    /\ poi = 0
    /\ mb = 0
    /\ expectedPadding = 0
    /\ intermediateState = <<>>
    /\ probe = <<>>
    /\ calls = 0
    /\ revealLog = <<>>
    /\ FnIdle

Next ==
    \/ CallDecrypt
    \/ RevealEntry
    \/ ProbeReject
    \/ ProbeAccept

Spec == Init /\ [][Next]_vars

\* ---------------------------------------------------------- SpecFn: helpers

\* In SpecFn no attack runs.
AttackIdle ==
    /\ op = "fn"
    /\ pc = "idle"
    /\ ciphertext = <<>>
    /\ ciphertext0 = <<>>
    /\ blockSize = 1
    /\ oracle = [kind |-> "accept", key |-> 0]
    /\ i = 0
    /\ plaintext = <<>>
    /\ err = "nil"
    /\ targetBlockIndex = 0
    /\ modBlockBackup = <<>>
    /\ poi = 0
    /\ mb = 0
    /\ expectedPadding = 0
    /\ intermediateState = <<>>
    /\ probe = <<>>
    /\ calls = 0
    /\ revealLog = <<>>

FnSeqs(n) == UNION {[1..l -> 0..MaxFnByte] : l \in 0..n}

\* Inputs of the helpers: short byte strings with small block sizes; the block
\* sizes around the number of byte values, with the shortest strings; and
\* pairs of operands for Xor.
FnInputs ==
    {[x |-> x, y |-> <<>>, bs |-> bs] : x \in FnSeqs(MaxFnLen), bs \in 1..MaxFnBlockSize}
        \cup {[x |-> x, y |-> <<>>, bs |-> bs] :
                x \in FnSeqs(1), bs \in {ByteMod - 1, ByteMod, ByteMod + 1}}
        \cup {[x |-> x, y |-> y, bs |-> 1] : x \in FnSeqs(MaxXorLen), y \in FnSeqs(MaxXorLen)}

InitFn ==
    /\ AttackIdle
    /\ fnOp = "init"
    /\ fnIn \in FnInputs
    /\ fnOut = [val |-> <<>>, err |-> "nil"]

attackVars == <<op, pc, ciphertext, ciphertext0, blockSize, oracle, i, plaintext, err,
                revealVars, probe, calls, revealLog>>

ApplySplit ==
    /\ fnOp = "init"
    /\ fnOp' = "split"
    /\ fnOut' = SplitBlocks(fnIn.x, fnIn.bs)
    /\ UNCHANGED <<fnIn, attackVars>>

ApplyMerge ==
    /\ fnOp = "split"
    /\ fnOut.err = "nil"
    /\ fnOp' = "merge"
    /\ fnOut' = [val |-> MergeBlocks(fnOut.val), err |-> "nil"]
    /\ UNCHANGED <<fnIn, attackVars>>

ApplyPad ==
    /\ fnOp = "init"
    /\ fnOp' = "pad"
    /\ fnOut' = [val |-> PKCS7Padding(fnIn.x, fnIn.bs), err |-> "nil"]
    /\ UNCHANGED <<fnIn, attackVars>>

ApplyUnpad ==
    /\ fnOp = "pad"
    /\ fnOp' = "unpad"
    /\ fnOut' = PKCS7Unpadding(fnOut.val, fnIn.bs)
    /\ UNCHANGED <<fnIn, attackVars>>

ApplyValidatePadded ==
    /\ fnOp = "pad"
    /\ fnOp' = "padvalidate"
    /\ fnOut' = [val |-> fnOut.val, err |-> PKCS7Validate(fnOut.val, fnIn.bs)]
    /\ UNCHANGED <<fnIn, attackVars>>

ApplyValidate ==
    /\ fnOp = "init"
    /\ fnOp' = "validate"
    /\ fnOut' = [val |-> <<>>, err |-> PKCS7Validate(fnIn.x, fnIn.bs)]
    /\ UNCHANGED <<fnIn, attackVars>>

ApplyXor ==
    /\ fnOp = "init"
    /\ fnOp' = "xor"
    /\ fnOut' = Xor(fnIn.x, fnIn.y)
    /\ UNCHANGED <<fnIn, attackVars>>

ApplyXorAgain ==
    /\ fnOp = "xor"
    /\ fnOut.err = "nil"
    /\ fnOp' = "xorxor"
    /\ fnOut' = Xor(fnOut.val, fnIn.y)
    /\ UNCHANGED <<fnIn, attackVars>>

NextFn ==
    \/ ApplySplit
    \/ ApplyMerge
    \/ ApplyPad
    \/ ApplyUnpad
    \/ ApplyValidatePadded
    \/ ApplyValidate
    \/ ApplyXor
    \/ ApplyXorAgain

SpecFn == InitFn /\ [][NextFn]_vars

\* ------------------------------------------------- what the claims speak of

\* The call has ended: it returned, or the process panicked.
Finished == pc \in {"done", "panic"}

Truthful == oracle.kind = "truthful"

\* The ciphertext as the caller passed it: its block count and alignment.
NumBlocks0 == NumBlocks(ciphertext0, blockSize)
Aligned0 == Len(ciphertext0) % blockSize = 0
ValidTarget(t) == 1 <= t /\ t < NumBlocks0

\* The intermediate state of original block t, and its true plaintext: the
\* intermediate state XOR the original block t-1.
TrueIntermediate(t) == DecryptBlock(oracle.key, Block(ciphertext0, blockSize, t))

TruePlaintextBlock(t) ==
    [k \in 1..blockSize |->
        XorByte(TrueIntermediate(t)[k], Block(ciphertext0, blockSize, t - 1)[k])]

\* The last-byte ambiguity for block t: some padding length k >= 2 is already
\* in place in the probe's last block under the scrambled previous block
\* (every byte + 1) for the k-1 bytes before the last, and the candidate that
\* completes it is lower than the one that yields the single byte 0x01.
SpuriousLastByte(t) ==
    LET is == TrueIntermediate(t)
        scr == [k \in 1..blockSize |->
                  ToByte(Block(ciphertext0, blockSize, t - 1)[k] + 1)]
    IN  \E k \in 2..blockSize :
          /\ \A j \in (blockSize - k + 1)..(blockSize - 1) : XorByte(is[j], scr[j]) = k
          /\ XorByte(is[blockSize], k) < XorByte(is[blockSize], 1)

\* PKCS7 well-formedness of src for block size bs, as the specification words it.
WellFormedPadding(src, bs) ==
    /\ Len(src) > 0
    /\ Len(src) % bs = 0
    /\ LET k == src[Len(src)]
       IN  /\ 1 <= k
           /\ k <= bs
           /\ \A p \in (Len(src) - k + 1)..Len(src) : src[p] = k

\* ------------------------------------------------------------------ claims

\* C1 (as stated): with a truthful oracle and a valid target index,
\* PaddingOracleBlockReveal returns, without error, the true plaintext of the
\* target block (intermediate state XOR the original previous block).
RevealRecoversBlock ==
    (Finished /\ op = "reveal" /\ Truthful /\ ValidTarget(targetBlockIndex))
        => /\ pc = "done"
           /\ err = "nil"
           /\ plaintext = TruePlaintextBlock(targetBlockIndex)

\* C1 (amended): the same, for block sizes below 255 and target blocks free of
\* the last-byte ambiguity (no longer padding is completed by a candidate
\* lower than the one producing the single padding byte 0x01).
RevealRecoversUnambiguousBlock ==
    (Finished /\ op = "reveal" /\ Truthful /\ ValidTarget(targetBlockIndex)
       /\ blockSize < ByteMod - 1 /\ ~SpuriousLastByte(targetBlockIndex))
        => /\ pc = "done"
           /\ err = "nil"
           /\ plaintext = TruePlaintextBlock(targetBlockIndex)

\* C1 witness: a reveal of the last of three 3-byte blocks that returned the
\* true plaintext, after at least one oracle call per byte.
RevealRecoversBlockWitness ==
    /\ pc = "done" /\ op = "reveal" /\ Truthful
    /\ blockSize = 3 /\ targetBlockIndex = 2 /\ NumBlocks0 = 3
    /\ ~SpuriousLastByte(targetBlockIndex)
    /\ calls >= 3
    /\ err = "nil"
    /\ plaintext = TruePlaintextBlock(2)

\* C2 (as stated): with a truthful oracle, CBCPaddingOracle on n >= 2 aligned
\* blocks returns no error and the (n-1)*blockSize bytes that are the true
\* plaintexts of blocks 1..n-1 in order.
DecryptRecoversAll ==
    (Finished /\ op = "decrypt" /\ Truthful /\ Aligned0 /\ NumBlocks0 >= 2)
        => /\ pc = "done"
           /\ err = "nil"
           /\ Len(plaintext) = (NumBlocks0 - 1) * blockSize
           /\ plaintext = MergeBlocks([t \in 1..(NumBlocks0 - 1) |-> TruePlaintextBlock(t)])

\* C2 (amended): the same, for block sizes below 255 and ciphertexts none of
\* whose blocks 1..n-1 has the last-byte ambiguity.
DecryptRecoversAllUnambiguous ==
    (Finished /\ op = "decrypt" /\ Truthful /\ Aligned0 /\ NumBlocks0 >= 2
       /\ blockSize < ByteMod - 1
       /\ \A t \in 1..(NumBlocks0 - 1) : ~SpuriousLastByte(t))
        => /\ pc = "done"
           /\ err = "nil"
           /\ Len(plaintext) = (NumBlocks0 - 1) * blockSize
           /\ plaintext = MergeBlocks([t \in 1..(NumBlocks0 - 1) |-> TruePlaintextBlock(t)])

\* C2 witness: a decryption of three 2-byte blocks that returned the four true
\* plaintext bytes, the two recovered blocks being different.
DecryptRecoversAllWitness ==
    /\ pc = "done" /\ op = "decrypt" /\ Truthful
    /\ blockSize = 2 /\ NumBlocks0 = 3
    /\ \A t \in 1..2 : ~SpuriousLastByte(t)
    /\ err = "nil"
    /\ plaintext = TruePlaintextBlock(1) \o TruePlaintextBlock(2)
    /\ TruePlaintextBlock(1) # TruePlaintextBlock(2)

\* C3: when PaddingOracleBlockReveal or CBCPaddingOracle has returned, with a
\* result or with an error, every byte of the caller's ciphertext (and so of
\* every block, a view of it) is what it was before the call.
CallerBytesUnchanged == pc = "done" => ciphertext = ciphertext0

\* C4: PaddingOracleBlockReveal with a target index < 1 or >= len(blocks)
\* returns the InvalidTargetIndex error (no crash), having called the oracle
\* never and changed no block.
InvalidIndexIsAnError ==
    (op = "reveal" /\ ~ValidTarget(targetBlockIndex) /\ pc # "reveal")
        => /\ pc = "done"
           /\ err = "InvalidTargetIndex"
           /\ calls = 0
           /\ ciphertext = ciphertext0

\* C5: CBCPaddingOracle on an aligned ciphertext of 0 or 1 block returns an
\* error, never an empty plaintext with a nil error.
ShortCiphertextIsAnError ==
    (pc = "done" /\ op = "decrypt" /\ Aligned0 /\ NumBlocks0 < 2) => err # "nil"

\* C6: when the reveal of block f fails inside CBCPaddingOracle, it returns
\* that error and exactly the plaintexts the reveals of blocks 1..f-1 returned,
\* in order; the last oracle call made was one for block f (its input has f+1
\* blocks), so none was made for a later block.
PartialResultOnFailure ==
    (pc = "done" /\ op = "decrypt" /\ err \notin {"nil", "NotBlockAligned"})
        => LET f == Len(revealLog)
           IN  /\ f >= 1
               /\ revealLog[f].err = err
               /\ \A j \in 1..f : revealLog[j].target = j
               /\ \A j \in 1..(f - 1) : revealLog[j].err = "nil"
               /\ plaintext = MergeBlocks([j \in 1..(f - 1) |-> revealLog[j].pt])
               /\ Len(plaintext) = (f - 1) * blockSize
               /\ Len(probe) = (f + 1) * blockSize

\* C6 witness: a decryption that failed at block 2 and returned the plaintext
\* of block 1.
PartialResultWitness ==
    /\ pc = "done" /\ op = "decrypt"
    /\ err = "OracleExhausted"
    /\ Len(revealLog) = 2
    /\ plaintext = revealLog[1].pt
    /\ Len(plaintext) = blockSize

\* C7: SplitBlocks fails exactly when len(x) % bs # 0; otherwise it returns
\* len(x)/bs blocks of bs bytes, block b holding bytes (b-1)*bs+1 .. b*bs of x,
\* and MergeBlocks gives x back.
SplitMergeRoundTrip ==
    /\ fnOp = "split" =>
         /\ (fnOut.err # "nil") <=> (Len(fnIn.x) % fnIn.bs # 0)
         /\ fnOut.err = "nil" =>
              /\ Len(fnOut.val) * fnIn.bs = Len(fnIn.x)
              /\ \A b \in 1..Len(fnOut.val) :
                    /\ Len(fnOut.val[b]) = fnIn.bs
                    /\ \A k \in 1..fnIn.bs : fnOut.val[b][k] = fnIn.x[(b - 1) * fnIn.bs + k]
    /\ fnOp = "merge" => fnOut.val = fnIn.x

\* C7 witness: two different blocks of two bytes, split and merged back.
SplitMergeWitness ==
    /\ fnOp = "merge"
    /\ fnIn.bs = 2
    /\ Len(fnIn.x) = 4
    /\ SubSeq(fnIn.x, 1, 2) # SubSeq(fnIn.x, 3, 4)
    /\ fnOut.val = fnIn.x

\* C8: for every x (the empty one included) and bs > 0, the padded x has a
\* length that is a multiple of bs, and PKCS7Unpadding of it succeeds and
\* returns x.
PadUnpadRoundTrip ==
    /\ fnOp = "pad" => Len(fnOut.val) % fnIn.bs = 0
    /\ fnOp = "unpad" => (fnOut.err = "nil" /\ fnOut.val = fnIn.x)

\* C9: PKCS7Validate returns ok exactly for the well-formed inputs (length a
\* multiple of bs, last byte k in 1..bs, last k bytes all k) and the
\* InvalidPadding error for every other input.
ValidateIffWellFormed ==
    fnOp = "validate" =>
        fnOut.err = IF WellFormedPadding(fnIn.x, fnIn.bs) THEN "nil" ELSE "InvalidPadding"

\* C10 (as stated): PKCS7Validate accepts PKCS7Padding(x, bs) for every x and
\* every bs > 0.
PaddedValidates == fnOp = "padvalidate" => fnOut.err = "nil"

\* C10 (amended): PKCS7Validate accepts PKCS7Padding(x, bs) whenever the pad
\* length bs - len(x) % bs is not a multiple of 256, as for every bs <= 255.
PaddedValidatesByteSized ==
    (fnOp = "padvalidate" /\ (fnIn.bs - (Len(fnIn.x) % fnIn.bs)) % ByteMod # 0)
        => fnOut.err = "nil"

\* C10 witness: an input whose length is already a multiple of the block
\* size, padded by a whole block and accepted.
PaddedValidatesWitness ==
    /\ fnOp = "padvalidate"
    /\ Len(fnIn.x) = fnIn.bs
    /\ fnIn.bs > 1
    /\ Len(fnOut.val) = 2 * fnIn.bs
    /\ fnOut.err = "nil"


\* Bit n of a byte.
Bit(v, n) == (v \div (2 ^ n)) % 2

\* C11: Xor returns the LengthMismatch error exactly when the lengths differ;
\* otherwise its result has, bit for bit, the exclusive or of the operands,
\* Xor(a, a) is all zero, and Xor(Xor(a, b), b) is a.
XorLaws ==
    /\ fnOp = "xor" =>
         /\ (fnOut.err = "LengthMismatch") <=> (Len(fnIn.x) # Len(fnIn.y))
         /\ Len(fnIn.x) = Len(fnIn.y) =>
              /\ fnOut.err = "nil"
              /\ Len(fnOut.val) = Len(fnIn.x)
              /\ \A k \in 1..Len(fnIn.x) : \A n \in 0..7 :
                    Bit(fnOut.val[k], n) = (Bit(fnIn.x[k], n) + Bit(fnIn.y[k], n)) % 2
              /\ fnIn.x = fnIn.y => \A k \in 1..Len(fnOut.val) : fnOut.val[k] = 0
    /\ fnOp = "xorxor" => (fnOut.err = "nil" /\ fnOut.val = fnIn.x)

\* C11 witness: two different two-byte operands, the second not zero, XORed
\* twice back to the first.
XorLawsWitness ==
    /\ fnOp = "xorxor"
    /\ Len(fnIn.x) = 2
    /\ fnIn.y \notin {fnIn.x, <<0, 0>>}
    /\ fnOut.val = fnIn.x


\* The search of the current PaddingOracleBlockReveal call has made an oracle
\* call: a candidate was rejected at this position, or a position is resolved.
ProbedInThisCall == pc = "search" /\ (mb > 0 \/ poi < Len(intermediateState) - 1)

\* The target block of the call that made the last oracle call: the running
\* call, or else the one that returned last.
ProbeTarget ==
    IF ProbedInThisCall \/ revealLog = <<>> THEN targetBlockIndex
    ELSE revealLog[Len(revealLog)].target

\* C12: every input handed to the oracle while block t is attacked has
\* (t+1)*blockSize bytes, and each of its blocks other than block t-1 (the
\* modifier block) holds the bytes of the original ciphertext.
ProbeIsOriginalButModifier ==
    calls > 0 =>
        /\ Len(probe) = (ProbeTarget + 1) * blockSize
        /\ \A b \in 0..ProbeTarget :
              b # ProbeTarget - 1 =>
                  Block(probe, blockSize, b) = Block(ciphertext0, blockSize, b)


\* ------------------------------------------------- SpecOrder: reveals in any order

\* A caller reveals the blocks 1 and 2 of three blocks one call after the
\* other on the same blocks, in either order, with a truthful oracle.
InitOrder ==
    /\ op = "reveal"
    /\ blockSize \in 1..MaxBlockSize
    /\ ciphertext \in Ciphertexts
    /\ Len(ciphertext) = 3 * blockSize
    /\ oracle \in {o \in Oracles : o.kind = "truthful"}
    /\ targetBlockIndex \in 1..2
    /\ ciphertext0 = ciphertext
    /\ pc = "reveal"
    /\ i = 0
    /\ plaintext = <<>>
    /\ err = "nil"
    /\ modBlockBackup = <<>>
    /\ poi = 0
    /\ mb = 0
    /\ expectedPadding = 0
    /\ intermediateState = <<>>
    /\ probe = <<>>
    /\ calls = 0
    /\ revealLog = <<>>
    /\ FnIdle

\* The caller's next PaddingOracleBlockReveal call, for a block not yet revealed.
RevealAnother ==
    /\ pc = "done"
    /\ op = "reveal"
    /\ \E t \in 1..(NumBlocks(ciphertext, blockSize) - 1) :
          /\ \A j \in 1..Len(revealLog) : revealLog[j].target # t
          /\ targetBlockIndex' = t
    /\ pc' = "reveal"
    /\ UNCHANGED <<op, ciphertext, ciphertext0, blockSize, oracle, i, plaintext, err,
                   modBlockBackup, poi, mb, expectedPadding, intermediateState,
                   probe, calls, revealLog, fnVars>>

NextOrder ==
    \/ RevealEntry
    \/ ProbeReject
    \/ ProbeAccept
    \/ RevealAnother

SpecOrder == InitOrder /\ [][NextOrder]_vars

\* The caller's array when the reveal of block t starts in the ascending
\* order 1, 2, ...: the original bytes, after the reveals of blocks 1..t-1.
RECURSIVE AscendingMem(_)
AscendingMem(t) ==
    IF t <= 1 THEN ciphertext0
    ELSE RevealResult(AscendingMem(t - 1), blockSize, t - 1, oracle).mem

\* What the reveal of block t returns in the ascending order.
AscendingResult(t) == RevealResult(AscendingMem(t), blockSize, t, oracle)

\* C13: whatever the order of the reveals, the call for block t returns what
\* it returns in the ascending order.
OrderIndependent ==
    (op = "reveal" /\ pc = "done" /\ revealLog # <<>>)
        => LET e == revealLog[Len(revealLog)]
               a == AscendingResult(e.target)
           IN  e.pt = a.pt /\ e.err = a.err


\* --------------------------------------------------------- the search loops

\* The oracle's verdict on the probe just sent.
Accepted == OracleAccepts(oracle, probe', blockSize)

\* The probe with candidate c at the position being searched.
CandidateProbe(c) ==
    ProbeInput(ProbeStore(ciphertext, blockSize, targetBlockIndex, poi, c),
               blockSize, targetBlockIndex)

\* C14: the search at a position starts with candidate 0; each oracle call
\* carries the current candidate mb at the position; a rejection moves on to
\* candidate mb + 1 at the same position; a match at candidate c ends the
\* search at that position, every candidate below c is one the oracle
\* rejects there, and intermediateState[poi] becomes c XOR expectedPadding
\* (the value before the increment).
LowestCandidateFirst ==
    [][/\ (pc # "search" /\ pc' = "search") => mb' = 0
       /\ (pc = "search" /\ calls' # calls) =>
            /\ calls' = calls + 1
            /\ probe' = CandidateProbe(mb)
            /\ Block(probe', blockSize, targetBlockIndex - 1)[poi + 1] = mb
            /\ ~Accepted =>
                 /\ intermediateState' = intermediateState
                 /\ pc' = "search" => (poi' = poi /\ mb' = mb + 1)
                 /\ pc' # "search" => mb = ByteMod - 1
            /\ Accepted =>
                 /\ intermediateState' =
                       [intermediateState EXCEPT ![poi + 1] = XorByte(mb, expectedPadding)]
                 /\ \A c \in 0..(mb - 1) :
                       ~OracleAccepts(oracle, CandidateProbe(c), blockSize)
                 /\ (pc' = "search" /\ targetBlockIndex' = targetBlockIndex) =>
                       (poi' = poi - 1 /\ mb' = 0)
      ]_vars

\* A match at a candidate above 1, after which the search goes on at the next
\* position.
LowestCandidateWitness ==
    /\ pc = "search"
    /\ Truthful
    /\ mb = 0
    /\ poi < Len(intermediateState) - 1
    /\ XorByte(intermediateState[poi + 2], expectedPadding - 1) >= 2


\* The oracle calls spent on the positions above p in this call: the match at
\* position q came at candidate intermediateState[q] XOR (ltb - q), after that
\* many rejections.
RECURSIVE ProbesAbove(_)
ProbesAbove(p) ==
    IF p + 1 >= Len(intermediateState) THEN 0
    ELSE XorByte(intermediateState[p + 2], Len(intermediateState) - (p + 1)) + 1
         + ProbesAbove(p + 1)

\* C15: a search never goes past candidate 255; when all 256 candidates of a
\* position are rejected the call fails with OracleExhausted and no plaintext,
\* and nothing is probed afterwards; the number of oracle calls of one call is
\* the number of (position, candidate) pairs met in the ascending search, so no
\* pair is probed twice.
ExhaustionFailsOnce ==
    /\ pc = "search" => mb < ByteMod
    /\ mb = ByteMod <=> (pc = "done" /\ err = "OracleExhausted")
    /\ mb = ByteMod =>
         /\ revealLog[Len(revealLog)].pt = <<>>
         /\ revealLog[Len(revealLog)].err = "OracleExhausted"
         /\ op = "reveal" => plaintext = <<>>
    /\ (op = "reveal" /\ intermediateState # <<>> /\ pc # "panic") =>
         calls = (IF poi >= 0 THEN mb ELSE 0) + ProbesAbove(poi)

\* The oracle rejected the 256 candidates of the last byte.
ExhaustionWitness ==
    /\ op = "reveal"
    /\ pc = "done"
    /\ err = "OracleExhausted"
    /\ mb = ByteMod
    /\ calls = ByteMod


\* C16: the first probe of a call is at position ltb - 1 with expectedPadding
\* 1; the position never goes up within a call and goes down by one only on
\* a match recorded at the position left; and whenever a position poi is
\* being searched expectedPadding = ltb - poi.
DescendingPositions ==
    [][/\ (pc # "search" /\ pc' = "search") =>
            /\ Len(intermediateState') = blockSize
            /\ poi' = Len(intermediateState') - 1
            /\ expectedPadding' = 1
            /\ calls' = calls
       /\ pc' = "search" =>
            /\ 0 <= poi' /\ poi' <= Len(intermediateState') - 1
            /\ expectedPadding' = Len(intermediateState') - poi'
       /\ (pc = "search" /\ pc' = "search") =>
            \/ poi' = poi /\ intermediateState' = intermediateState
            \/ /\ poi' = poi - 1
               /\ calls' = calls + 1
               /\ Accepted
               /\ intermediateState' =
                     [intermediateState EXCEPT ![poi + 1] = XorByte(mb, expectedPadding)]
      ]_vars

\* The search has come down to byte 0 of a block of more than one byte.
DescendingPositionsWitness ==
    /\ pc = "search"
    /\ blockSize >= 2
    /\ poi = 0
    /\ expectedPadding = blockSize
    /\ calls > 0


\* C17: while position poi is searched, every resolved position j > poi of
\* the modifier block holds expectedPadding XOR intermediateState[j], in the
\* caller's memory and in every probe sent for that position.
ModifierBlockInvariant ==
    pc = "search" =>
        \A j \in (poi + 1)..(Len(intermediateState) - 1) :
            /\ Block(ciphertext, blockSize, targetBlockIndex - 1)[j + 1]
                  = XorByte(expectedPadding, intermediateState[j + 1])
            /\ mb > 0 =>
                  Block(probe, blockSize, targetBlockIndex - 1)[j + 1]
                     = XorByte(expectedPadding, intermediateState[j + 1])

\* Byte 0 of a three-byte block is being probed, two positions resolved.
ModifierBlockWitness ==
    /\ pc = "search"
    /\ Len(intermediateState) = 3
    /\ poi = 0
    /\ mb > 0


\* --------------------------------------------- SpecWide: the largest byte-sized block

\* One PaddingOracleBlockReveal call on two blocks of 255 bytes, the largest
\* block size a padding byte can express, with an oracle that always or never
\* accepts.
InitWide ==
    /\ op = "reveal"
    /\ blockSize = ByteMod - 1
    /\ ciphertext = [k \in 1..(2 * (ByteMod - 1)) |-> 1]
    /\ oracle \in {o \in Oracles : o.kind \in {"accept", "reject"} /\ o.key = 0}
    /\ targetBlockIndex = 1
    /\ ciphertext0 = ciphertext
    /\ pc = "reveal"
    /\ i = 0
    /\ plaintext = <<>>
    /\ err = "nil"
    /\ modBlockBackup = <<>>
    /\ poi = 0
    /\ mb = 0
    /\ expectedPadding = 0
    /\ intermediateState = <<>>
    /\ probe = <<>>
    /\ calls = 0
    /\ revealLog = <<>>
    /\ FnIdle

NextWide ==
    \/ RevealEntry
    \/ ProbeReject
    \/ ProbeAccept

SpecWide == InitWide /\ [][NextWide]_vars

\* C18: a call with a valid target index ends Revealed (block-sized plaintext,
\* no error) or Failed (error), never otherwise, within 256 * blockSize oracle
\* calls, and Revealed exactly when every position found its match.
EndsRevealedOrFailed ==
    (op = "reveal" /\ ValidTarget(targetBlockIndex)) =>
        /\ pc \in {"reveal", "search", "done"}
        /\ calls <= ByteMod * blockSize
        /\ pc = "done" =>
             /\ err \in {"nil", "OracleExhausted"}
             /\ err = "nil" <=> poi < 0
             /\ err = "nil" => Len(plaintext) = blockSize
             /\ err # "nil" => plaintext = <<>>

\* C20: with blocks of 1..255 bytes and a valid target index no index of
\* modBlock or intermediateState leaves 0..ltb-1: the call never panics.
IndexSafety ==
    (op = "reveal" /\ ValidTarget(targetBlockIndex)
       /\ 1 <= blockSize /\ blockSize <= ByteMod - 1) => pc # "panic"


\* C19: when CBCPaddingOracle starts the reveal of block i, the reveals of
\* blocks 1..i-1 done, blocks i-1 and i of the caller's memory hold their
\* original bytes; throughout that reveal the backup is the original block
\* i-1 and the target block is the original block i.
DecryptRevealsOriginalBlocks ==
    op = "decrypt" =>
        /\ pc = "reveal" =>
             /\ targetBlockIndex = i
             /\ 1 <= i /\ i < NumBlocks0
             /\ Len(revealLog) = i - 1
             /\ Block(ciphertext, blockSize, i - 1) = Block(ciphertext0, blockSize, i - 1)
             /\ Block(ciphertext, blockSize, i) = Block(ciphertext0, blockSize, i)
        /\ pc = "search" =>
             /\ modBlockBackup = Block(ciphertext0, blockSize, targetBlockIndex - 1)
             /\ Block(ciphertext, blockSize, targetBlockIndex)
                   = Block(ciphertext0, blockSize, targetBlockIndex)

\* The reveal of block 2 starts after the reveal of block 1 changed block 0.
DecryptRevealsOriginalWitness ==
    /\ op = "decrypt"
    /\ pc = "reveal"
    /\ i = 2
    /\ Block(ciphertext, blockSize, 0) # Block(ciphertext0, blockSize, 0)

=============================================================================
